---- MODULE Spec2Model ----
(***************************************************************************)
(* Model of mbbot's URL rewrite engine (url.go: urlRewrites, doRewrite)    *)
(* of its relationship reconciler (rel.go: setRelEditVals), and of the     *)
(* processing of identifiers (url.go: updateURL, rel.go: postRelEdit,      *)
(* server.go: send, main.go: main).                                        *)
(*                                                                         *)
(* A URL is a sequence of tokens: the literal chunks the regular           *)
(* expressions of url.go are made of ("https", "://", "tidal", ".", ...).  *)
(* A pattern is matched by simulating it over the token sequence: every    *)
(* sub-pattern maps a set of start positions to the set of positions at    *)
(* which a match of it can end.                                            *)
(***************************************************************************)
EXTENDS Integers, Sequences, FiniteSets, TLC

VARIABLES
  info,      \* the URL entity as fetched: [url, rels] (urlInfo)
  res,       \* what doRewrite returned for info (Nil: no change)
  pc,        \* position of the run
  mode,      \* how info was obtained: "fetched", "updated" or "renamed"
  original,  \* setRelEditVals: orig (None for a nil pointer)
  desired,   \* setRelEditVals: rel
  relPre,    \* setRelEditVals: pre, "rel-editor.rels.N."
  relVals,   \* vals, the parameter map of the request being built
  err,       \* the error returned ("" for nil)
  args,      \* updateURL: its parameters [mbid, editNote, makeVotable]
  db,        \* the remote system: the entity of every MBID it knows
  cancelled, \* where updateURL was when ctx was cancelled ("": ctx is not done)
  sent,      \* the requests send has issued, in order
  newIdx,    \* updateURL: position in res.newURLs (0 before the loop)
  resp,      \* what the last call of send returned
  posted,    \* what the last postRelEdit returned: [ids, err]
  lines,     \* main: the lines of standard input
  lineNo,    \* main: how many of them the scanner has read
  done       \* main: the identifiers updateURL has returned for, with
             \* the error it returned

urlVars == <<args, db, cancelled, sent, newIdx, resp, posted, lines, lineNo, done>>

vars == <<info, res, pc, mode, original, desired, relPre, relVals, err,
          args, db, cancelled, sent, newIdx, resp, posted, lines, lineNo, done>>

(***************************************************************************)
(* Bounds                                                                  *)
(***************************************************************************)
MaxRels == 2

(***************************************************************************)
(* rel.go: date, relInfo                                                   *)
(***************************************************************************)
date(y, m, d) == [year |-> y, month |-> m, day |-> d]

empty(d) == d.year = 0 /\ d.month = 0 /\ d.day = 0

relInfo(id, linkTypeID, linkPhrase, beginDate, endDate, ended, backward, targetMBID, targetName, targetType) ==
  [id |-> id, linkTypeID |-> linkTypeID, linkPhrase |-> linkPhrase,
   beginDate |-> beginDate, endDate |-> endDate, ended |-> ended,
   backward |-> backward, targetMBID |-> targetMBID,
   targetName |-> targetName, targetType |-> targetType]

filterRels(rels, entityType) ==
  SelectSeq(rels, LAMBDA rel : rel.targetType = entityType)

urlInfo(u, rels) == [url |-> u, rels |-> rels]

\* a nil *relInfo
None == [none |-> TRUE]

\* strconv.Itoa
Itoa(v) == ToString(v)

itoaNonZero(v) == IF v = 0 THEN "" ELSE Itoa(v)

boolToParam(v) == IF v THEN "1" ELSE "0"

\* a map[string]string is a function from its keys; a key pre + field is
\* the pair of the prefix and the field
NoVals == [k \in {} |-> ""]

\* url.go 60, 76: pre := fmt.Sprintf("rel-editor.rels.%d.", i)
relPrefix(i) == "rel-editor.rels." \o ToString(i) \o "."

\* vals[k] = v
SetVal(vals, k, v) ==
  [x \in DOMAIN vals \cup {k} |-> IF x = k THEN v ELSE vals[x]]

\* setLinkType setting the link type only when it differs from an original's
setLinkType_onlyWhenDiffers(vals, pre, rel, orig) ==
  IF orig # None /\ rel.linkTypeID # orig.linkTypeID
    THEN SetVal(vals, <<pre, "link_type">>, Itoa(rel.linkTypeID))
    ELSE vals

\* rel.go 83-85: the link type is set when it is new or differs
setLinkType(vals, pre, rel, orig) ==
  IF orig = None \/ rel.linkTypeID # orig.linkTypeID
    THEN SetVal(vals, <<pre, "link_type">>, Itoa(rel.linkTypeID))
    ELSE vals

\* setBeginDate setting every begin date that is not empty
setBeginDate_unchangedToo(vals, pre, rel, orig) ==
  IF ~empty(rel.beginDate)
    THEN SetVal(SetVal(SetVal(vals,
           <<pre, "period.begin_date.year">>, itoaNonZero(rel.beginDate.year)),
           <<pre, "period.begin_date.month">>, itoaNonZero(rel.beginDate.month)),
           <<pre, "period.begin_date.day">>, itoaNonZero(rel.beginDate.day))
    ELSE vals

\* rel.go 94-98
setBeginDate(vals, pre, rel, orig) ==
  IF ~empty(rel.beginDate) /\ (orig = None \/ rel.beginDate # orig.beginDate)
    THEN SetVal(SetVal(SetVal(vals,
           <<pre, "period.begin_date.year">>, itoaNonZero(rel.beginDate.year)),
           <<pre, "period.begin_date.month">>, itoaNonZero(rel.beginDate.month)),
           <<pre, "period.begin_date.day">>, itoaNonZero(rel.beginDate.day))
    ELSE vals

\* setEndDate setting an empty end date too
setEndDate_emptyToo(vals, pre, rel, orig) ==
  IF orig = None \/ rel.endDate # orig.endDate
    THEN SetVal(SetVal(SetVal(vals,
           <<pre, "period.end_date.year">>, itoaNonZero(rel.endDate.year)),
           <<pre, "period.end_date.month">>, itoaNonZero(rel.endDate.month)),
           <<pre, "period.end_date.day">>, itoaNonZero(rel.endDate.day))
    ELSE vals

\* rel.go 99-103
setEndDate(vals, pre, rel, orig) ==
  IF ~empty(rel.endDate) /\ (orig = None \/ rel.endDate # orig.endDate)
    THEN SetVal(SetVal(SetVal(vals,
           <<pre, "period.end_date.year">>, itoaNonZero(rel.endDate.year)),
           <<pre, "period.end_date.month">>, itoaNonZero(rel.endDate.month)),
           <<pre, "period.end_date.day">>, itoaNonZero(rel.endDate.day))
    ELSE vals

\* rel.go 104-106
setEnded(vals, pre, rel, orig) ==
  IF (orig = None /\ rel.ended) \/ (orig # None /\ rel.ended # orig.ended)
    THEN SetVal(vals, <<pre, "period.ended">>, boolToParam(rel.ended))
    ELSE vals

\* setAction taking every relationship for an existing one
setAction_alwaysEdit(vals, pre, rel, orig) ==
  LET e == SetVal(SetVal(vals, <<pre, "action">>, "edit"),
                  <<pre, "id">>, Itoa(rel.id))
  IN  IF <<pre, "link_type">> \in DOMAIN e THEN e
      ELSE SetVal(e, <<pre, "link_type">>, Itoa(rel.linkTypeID))

\* setAction leaving an unchanged link type out of an edit
setAction_noLinkType(vals, pre, rel, orig) ==
  IF orig = None
    THEN SetVal(vals, <<pre, "action">>, "add")
    ELSE SetVal(SetVal(vals, <<pre, "action">>, "edit"),
                <<pre, "id">>, Itoa(rel.id))

\* rel.go 112-120
setAction(vals, pre, rel, orig) ==
  IF orig = None
    THEN SetVal(vals, <<pre, "action">>, "add")
    ELSE LET e == SetVal(SetVal(vals, <<pre, "action">>, "edit"),
                         <<pre, "id">>, Itoa(rel.id))
         IN  IF <<pre, "link_type">> \in DOMAIN e THEN e
             ELSE SetVal(e, <<pre, "link_type">>, Itoa(rel.linkTypeID))

\* setRelEditVals looking at the id of a new relationship after it has set
\* the parameters
setRelEditVals_lateIdCheck(vals, pre, rel, orig) ==
  LET origCnt == Cardinality(DOMAIN vals)
      set == setEnded(setEndDate(setBeginDate(setLinkType(vals, pre, rel, orig),
                                              pre, rel, orig),
                                 pre, rel, orig),
                      pre, rel, orig)
  IN  IF orig # None /\ rel = orig
        THEN [vals |-> vals, err |-> "no changes for rel"]
      ELSE IF Cardinality(DOMAIN set) = origCnt
        THEN [vals |-> set, err |-> "unsupported update for rel"]
      ELSE IF orig = None /\ rel.id # 0
        THEN [vals |-> set, err |-> "invalid rel"]
      ELSE [vals |-> setAction(set, pre, rel, orig), err |-> ""]

\* setRelEditVals without the test that a parameter was set
setRelEditVals_noCountCheck(vals, pre, rel, orig) ==
  LET set == setEnded(setEndDate(setBeginDate(setLinkType(vals, pre, rel, orig),
                                              pre, rel, orig),
                                 pre, rel, orig),
                      pre, rel, orig)
  IN  IF orig = None /\ rel.id # 0
        THEN [vals |-> vals, err |-> "invalid rel"]
      ELSE IF orig # None /\ rel = orig
        THEN [vals |-> vals, err |-> "no changes for rel"]
      ELSE [vals |-> setAction(set, pre, rel, orig), err |-> ""]

\* setRelEditVals without the comparison of rel with *orig
setRelEditVals_noEqualCheck(vals, pre, rel, orig) ==
  LET origCnt == Cardinality(DOMAIN vals)
      set == setEnded(setEndDate(setBeginDate(setLinkType(vals, pre, rel, orig),
                                              pre, rel, orig),
                                 pre, rel, orig),
                      pre, rel, orig)
  IN  IF orig = None /\ rel.id # 0
        THEN [vals |-> vals, err |-> "invalid rel"]
      ELSE IF Cardinality(DOMAIN set) = origCnt
        THEN [vals |-> set, err |-> "unsupported update for rel"]
      ELSE [vals |-> setAction(set, pre, rel, orig), err |-> ""]

\* the value is the map as the call leaves it and the error it returns
setRelEditVals(vals, pre, rel, orig) ==
  LET origCnt == Cardinality(DOMAIN vals)
      set == setEnded(setEndDate(setBeginDate(setLinkType(vals, pre, rel, orig),
                                              pre, rel, orig),
                                 pre, rel, orig),
                      pre, rel, orig)
  IN  IF orig = None /\ rel.id # 0
        THEN [vals |-> vals, err |-> "invalid rel"]
      ELSE IF orig # None /\ rel = orig
        THEN [vals |-> vals, err |-> "no changes for rel"]
      ELSE IF Cardinality(DOMAIN set) = origCnt
        THEN [vals |-> set, err |-> "unsupported update for rel"]
      ELSE [vals |-> setAction(set, pre, rel, orig), err |-> ""]

(***************************************************************************)
(* url.go: constants                                                       *)
(***************************************************************************)
tidalEditNote == "normalize Tidal streaming URLs"
geocitiesEditNote == "end GeoCities relationships"
tidalStoreEditNote == "end Tidal Store relationships"
recmusicEditNote == "convert RecMusic URLs to Tower Records Music"

geocitiesEndDate == date(2009, 10, 26)
geocitiesJapanEndDate == date(2019, 3, 31)
tidalStoreEndDate == date(2022, 10, 20)
recmusicEndDate == date(2021, 10, 1)

missingTowerRecordsPairs ==
  { << <<"artist">>, <<"2001445271">> >>, << <<"album">>, <<"1016070930">> >> }

(***************************************************************************)
(* Token classes: which tokens a character class of a pattern accepts.     *)
(***************************************************************************)
Digits == {"1", "2", "2001445271", "1016070930"}

Alpha2 == {"us", "sp", "jp", "co", "id"}

Words == Alpha2 \cup
  {"http", "https", "www", "listen", "desktop", "stage", "store", "test",
   "tidal", "geocities", "yahoo", "recmusic", "com", "org", "example",
   "browse", "album", "artist", "track", "video", "play", "detail",
   "music", "tower", "user"}

(***************************************************************************)
(* Pattern combinators.  s is the subject, I a set of positions (number of *)
(* tokens consumed so far); the value is the set of positions a match of   *)
(* the sub-pattern started in I can end at.                                *)
(***************************************************************************)
Lit(s, I, lit) ==
  { i + Len(lit) : i \in { k \in I : /\ k + Len(lit) <= Len(s)
                                     /\ SubSeq(s, k + 1, k + Len(lit)) = lit } }

Many1(s, I, C) ==
  { j \in 1..Len(s) : \E i \in I : i < j /\ \A k \in (i + 1)..j : s[k] \in C }

OneOf(s, I, C) ==
  { i + 1 : i \in { k \in I : k < Len(s) /\ s[k + 1] \in C } }

AnyStar(s, I) ==
  { j \in 0..Len(s) : \E i \in I : i <= j }

\* `^https?://`
Scheme(s) ==
  Lit(s, {0}, <<"http", "://">>) \cup Lit(s, {0}, <<"https", "://">>)

NoMatch == [matched |-> FALSE]

Submatch(m0, m1, m2) == [matched |-> TRUE, m0 |-> m0, m1 |-> m1, m2 |-> m2]

(***************************************************************************)
(* url.go: the four patterns of urlRewrites, as FindStringSubmatch.        *)
(* Every pattern is anchored at both ends, so m0 is the whole subject.     *)
(***************************************************************************)
tidalHost(s, I) ==
  LET pre == I \cup Lit(s, I, <<"desktop", ".">>)
               \cup Lit(s, I, <<"desktop", ".", "stage", ".">>)
               \cup Lit(s, I, <<"listen", ".">>)
               \cup Lit(s, I, <<"www", ".">>)
  IN  Lit(s, pre, <<"tidal", ".", "com">>)

\* `(/(?:album|artist|track|video|album/\d+/track)/\d+)`
tidalPathGroup(s, I) ==
  LET a == Lit(s, I, <<"/">>)
      kind == Lit(s, a, <<"album">>) \cup Lit(s, a, <<"artist">>)
                \cup Lit(s, a, <<"track">>) \cup Lit(s, a, <<"video">>)
                \cup Lit(s, Many1(s, Lit(s, a, <<"album", "/">>), Digits),
                         <<"/", "track">>)
  IN  Many1(s, Lit(s, kind, <<"/">>), Digits)

\* `(?:/|\?.*)?`
tidalTrail(s, I) ==
  I \cup Lit(s, I, <<"/">>) \cup AnyStar(s, Lit(s, I, <<"?">>))

tidalRegexp(s) ==
  LET h == tidalHost(s, Scheme(s))
      starts == h \cup Lit(s, h, <<"/", "browse">>)
      caps == { c \in starts \X (0..Len(s)) :
                  /\ c[2] \in tidalPathGroup(s, {c[1]})
                  /\ Len(s) \in tidalTrail(s, {c[2]}) }
  IN  IF caps = {} THEN NoMatch
      ELSE LET c == CHOOSE x \in caps : TRUE
           IN  Submatch(s, SubSeq(s, c[1] + 1, c[2]), <<>>)

geocitiesRegexp(s) ==
  LET sch == Scheme(s)
      sub == sch \cup Lit(s, Many1(s, sch, Words \cup Digits \cup {"-"}), <<".">>)
      g == Lit(s, sub, <<"geocities", ".">>)
      y == g \cup Lit(s, g, <<"yahoo", ".">>)
      tld(i) == Lit(s, {i}, <<"com">>) \cup Lit(s, {i}, <<"jp">>)
                  \cup Lit(s, {i}, <<"co", ".", "jp">>)
      caps == { c \in y \X (0..Len(s)) :
                  /\ c[2] \in tld(c[1])
                  /\ Len(s) \in AnyStar(s, Lit(s, {c[2]}, <<"/">>)) }
  IN  IF caps = {} THEN NoMatch
      ELSE LET c == CHOOSE x \in caps : TRUE
           IN  Submatch(s, SubSeq(s, c[1] + 1, c[2]), <<>>)

\* tidalStoreRegexp with the /store component optional
tidalStoreRegexp_storeOptional(s) ==
  LET sch == Scheme(s)
      a == Lit(s, sch, <<"store", ".", "tidal", ".", "com">>)
      b0 == Lit(s, sch, <<"tidal", ".", "com">>)
      cc == OneOf(s, Lit(s, b0, <<"/">>), Alpha2)
      b == b0 \cup cc \cup Lit(s, b0 \cup cc, <<"/", "store">>)
      ends == { e \in a \cup b : Len(s) \in AnyStar(s, Lit(s, {e}, <<"/">>)) }
  IN  IF ends = {} THEN NoMatch
      ELSE LET e == CHOOSE x \in ends : TRUE
           IN  Submatch(s, SubSeq(s, 3, e), <<>>)

tidalStoreRegexp(s) ==
  LET sch == Scheme(s)
      a == Lit(s, sch, <<"store", ".", "tidal", ".", "com">>)
      b0 == Lit(s, sch, <<"tidal", ".", "com">>)
      cc == OneOf(s, Lit(s, b0, <<"/">>), Alpha2)
      b == Lit(s, b0 \cup cc, <<"/", "store">>)
      ends == { e \in a \cup b : Len(s) \in AnyStar(s, Lit(s, {e}, <<"/">>)) }
  IN  IF ends = {} THEN NoMatch
      ELSE LET e == CHOOSE x \in ends : TRUE
           IN  Submatch(s, SubSeq(s, 3, e),
                        IF e \in Lit(s, cc, <<"/", "store">>)
                          THEN SubSeq(s, 6, 7) ELSE <<>>)

recmusicRegexp(s) ==
  LET h == Lit(s, Scheme(s), <<"recmusic", ".", "jp", "/">>)
      cc == h \cup Lit(s, OneOf(s, h, Alpha2), <<"/">>)
      caps == { c \in cc \X (0..Len(s)) :
                  /\ c[2] \in Lit(s, OneOf(s, {c[1]}, {"artist", "album"}),
                                  <<"/", "?", "id", "=">>)
                  /\ Len(s) \in Many1(s, {c[2]}, Digits) }
  IN  IF caps = {} THEN NoMatch
      ELSE LET c == CHOOSE x \in caps : TRUE
           IN  Submatch(s, SubSeq(s, c[1] + 1, c[1] + 1),
                        SubSeq(s, c[2] + 1, Len(s)))

\* `^/album/(\d+)/track/(\d+)$`
tidalAlbumTrackRegexp(p) ==
  LET caps == { c \in (0..Len(p)) \X (0..Len(p)) :
                  /\ c[1] \in Many1(p, Lit(p, {0}, <<"/", "album", "/">>), Digits)
                  /\ c[2] \in Lit(p, {c[1]}, <<"/", "track", "/">>)
                  /\ Len(p) \in Many1(p, {c[2]}, Digits) }
  IN  IF caps = {} THEN NoMatch
      ELSE LET c == CHOOSE x \in caps : TRUE
           IN  Submatch(p, SubSeq(p, 4, c[1]), SubSeq(p, c[2] + 1, Len(p)))

(***************************************************************************)
(* url.go: rewriteResult and the four transforms of urlRewrites.           *)
(***************************************************************************)
Nil == [nil |-> TRUE]

rewriteResult(rewritten, updatedRels, newURLs, editNote) ==
  [nil |-> FALSE, rewritten |-> rewritten, updatedRels |-> updatedRels,
   newURLs |-> newURLs, editNote |-> editNote]

\* tidalRewrite writing the track form with the http scheme
tidalRewrite_httpTrack(ms, rels) ==
  LET p == ms.m1
      at == tidalAlbumTrackRegexp(p)
      canon == <<"https", "://", "tidal", ".", "com">>
  IN  IF at.matched
        THEN IF Len(filterRels(rels, "recording")) > 0
               THEN rewriteResult(<<"http", "://", "tidal", ".", "com",
                                    "/", "track", "/">> \o at.m2,
                                  <<>>, <<>>, tidalEditNote)
             ELSE IF Len(filterRels(rels, "release")) > 0
               THEN rewriteResult(canon \o <<"/", "album", "/">> \o at.m1,
                                  <<>>, <<>>, tidalEditNote)
             ELSE Nil
        ELSE rewriteResult(canon \o p, <<>>, <<>>, tidalEditNote)

\* tidalRewrite looking for a release before a recording
tidalRewrite_releaseFirst(ms, rels) ==
  LET p == ms.m1
      at == tidalAlbumTrackRegexp(p)
      canon == <<"https", "://", "tidal", ".", "com">>
  IN  IF at.matched
        THEN IF Len(filterRels(rels, "release")) > 0
               THEN rewriteResult(canon \o <<"/", "album", "/">> \o at.m1,
                                  <<>>, <<>>, tidalEditNote)
             ELSE IF Len(filterRels(rels, "recording")) > 0
               THEN rewriteResult(canon \o <<"/", "track", "/">> \o at.m2,
                                  <<>>, <<>>, tidalEditNote)
             ELSE Nil
        ELSE rewriteResult(canon \o p, <<>>, <<>>, tidalEditNote)

tidalRewrite(ms, rels) ==
  LET p == ms.m1
      at == tidalAlbumTrackRegexp(p)
      canon == <<"https", "://", "tidal", ".", "com">>
  IN  IF at.matched
        THEN IF Len(filterRels(rels, "recording")) > 0
               THEN rewriteResult(canon \o <<"/", "track", "/">> \o at.m2,
                                  <<>>, <<>>, tidalEditNote)
             ELSE IF Len(filterRels(rels, "release")) > 0
               THEN rewriteResult(canon \o <<"/", "album", "/">> \o at.m1,
                                  <<>>, <<>>, tidalEditNote)
             ELSE Nil
        ELSE rewriteResult(canon \o p, <<>>, <<>>, tidalEditNote)

\* url.go 204-212: the loop variable rel at the end of the body of the
\* GeoCities rule's loop
geocitiesBody(ms, rel) ==
  LET endDate == IF ms.m1 = <<"jp">> \/ ms.m1 = <<"co", ".", "jp">>
                   THEN geocitiesJapanEndDate ELSE geocitiesEndDate
  IN  IF ~rel.ended THEN [rel EXCEPT !.ended = TRUE, !.endDate = endDate]
      ELSE rel

\* geocitiesRewrite taking only the TLD jp for Japanese
geocitiesRewrite_jpOnly(ms, rels) ==
  LET endDate == IF ms.m1 = <<"jp">>
                   THEN geocitiesJapanEndDate ELSE geocitiesEndDate
      end(rel) == [rel EXCEPT !.ended = TRUE, !.endDate = endDate]
      updatedRels == LET sel == SelectSeq(rels, LAMBDA rel : ~rel.ended)
                     IN  [i \in 1..Len(sel) |-> end(sel[i])]
  IN  IF Len(updatedRels) = 0 THEN Nil
      ELSE rewriteResult(ms.m0, updatedRels, <<>>, geocitiesEditNote)

\* geocitiesRewrite putting each relationship in front of updatedRels
geocitiesRewrite_prepend(ms, rels) ==
  LET updatedRels == LET sel == SelectSeq(rels, LAMBDA rel : ~rel.ended)
                     IN  [i \in 1..Len(sel) |->
                            geocitiesBody(ms, sel[Len(sel) + 1 - i])]
  IN  IF Len(updatedRels) = 0 THEN Nil
      ELSE rewriteResult(ms.m0, updatedRels, <<>>, geocitiesEditNote)

geocitiesRewrite(ms, rels) ==
  LET updatedRels == LET sel == SelectSeq(rels, LAMBDA rel : ~rel.ended)
                     IN  [i \in 1..Len(sel) |-> geocitiesBody(ms, sel[i])]
  IN  IF Len(updatedRels) = 0 THEN Nil
      ELSE rewriteResult(ms.m0, updatedRels, <<>>, geocitiesEditNote)

tidalStoreLinkType(rel) ==
  CASE rel.targetType = "artist" -> 176
    [] rel.targetType = "release" -> 74
    [] rel.targetType = "recording" -> 254
    [] OTHER -> rel.linkTypeID

\* url.go 234-246: the loop variable rel at the end of the body of the Tidal
\* Store rule's loop, up to the comparison with orig
tidalStoreBody(rel) ==
  LET typed == [rel EXCEPT !.linkTypeID = tidalStoreLinkType(rel)]
  IN  IF ~rel.ended
        THEN [typed EXCEPT !.ended = TRUE, !.endDate = tidalStoreEndDate]
        ELSE typed

\* tidalStoreRewrite setting the end date of ended relationships too
tidalStoreRewrite_alwaysEndDate(ms, rels) ==
  LET new(rel) == [rel EXCEPT !.linkTypeID = tidalStoreLinkType(rel),
                              !.ended = TRUE, !.endDate = tidalStoreEndDate]
      updatedRels == LET sel == SelectSeq(rels, LAMBDA rel : new(rel) # rel)
                     IN  [i \in 1..Len(sel) |-> new(sel[i])]
  IN  IF Len(updatedRels) = 0 THEN Nil
      ELSE rewriteResult(ms.m0, updatedRels, <<>>, tidalStoreEditNote)

tidalStoreRewrite(ms, rels) ==
  LET new(rel) == tidalStoreBody(rel)
      updatedRels == LET sel == SelectSeq(rels, LAMBDA rel : new(rel) # rel)
                     IN  [i \in 1..Len(sel) |-> new(sel[i])]
  IN  IF Len(updatedRels) = 0 THEN Nil
      ELSE rewriteResult(ms.m0, updatedRels, <<>>, tidalStoreEditNote)

\* url.go 274-278: the loop variable rel at the end of the body of the
\* RecMusic rule's loop
recmusicBody(rel) ==
  IF ~rel.ended
    THEN [rel EXCEPT !.ended = TRUE, !.endDate = recmusicEndDate]
    ELSE rel

\* recmusicRewrite making new relationships only for those it ends
recmusicRewrite_onlyActive(ms, rels) ==
  LET new(rel) == IF ~rel.ended
                    THEN [rel EXCEPT !.ended = TRUE, !.endDate = recmusicEndDate]
                    ELSE rel
      updatedRels == LET sel == SelectSeq(rels, LAMBDA rel : new(rel) # rel)
                     IN  [i \in 1..Len(sel) |-> new(sel[i])]
      newRel(rel) == [rel EXCEPT !.id = 0, !.beginDate = recmusicEndDate,
                                 !.endDate = date(0, 0, 0), !.ended = FALSE]
      newRels == IF <<ms.m1, ms.m2>> \notin missingTowerRecordsPairs
                   THEN LET sel == SelectSeq(rels, LAMBDA rel : new(rel) # rel)
                     IN  [i \in 1..Len(sel) |-> newRel(sel[i])]
                   ELSE <<>>
      newURL == urlInfo(<<"https", "://", "music", ".", "tower", ".", "jp", "/">>
                          \o ms.m1 \o <<"/", "detail", "/">> \o ms.m2,
                        newRels)
  IN  IF Len(rels) = 0 THEN Nil
      ELSE rewriteResult(ms.m0, updatedRels,
                         IF Len(newRels) > 0 THEN <<newURL>> ELSE <<>>,
                         recmusicEditNote)

\* recmusicRewrite appending to updatedRels without comparing rel with orig
recmusicRewrite_noChangeCheck(ms, rels) ==
  LET new(rel) == recmusicBody(rel)
      updatedRels == [i \in 1..Len(rels) |-> new(rels[i])]
      newRel(rel) == [rel EXCEPT !.id = 0, !.beginDate = recmusicEndDate,
                                 !.endDate = date(0, 0, 0), !.ended = FALSE]
      newRels == IF <<ms.m1, ms.m2>> \notin missingTowerRecordsPairs
                   THEN [i \in 1..Len(rels) |-> newRel(rels[i])] ELSE <<>>
      newURL == urlInfo(<<"https", "://", "music", ".", "tower", ".", "jp", "/">>
                          \o ms.m1 \o <<"/", "detail", "/">> \o ms.m2,
                        newRels)
  IN  IF Len(rels) = 0 THEN Nil
      ELSE rewriteResult(ms.m0, updatedRels,
                         IF Len(newRels) > 0 THEN <<newURL>> ELSE <<>>,
                         recmusicEditNote)

recmusicRewrite(ms, rels) ==
  LET new(rel) == recmusicBody(rel)
      updatedRels == LET sel == SelectSeq(rels, LAMBDA rel : new(rel) # rel)
                     IN  [i \in 1..Len(sel) |-> new(sel[i])]
      newRel(rel) == [rel EXCEPT !.id = 0, !.beginDate = recmusicEndDate,
                                 !.endDate = date(0, 0, 0), !.ended = FALSE]
      newRels == IF <<ms.m1, ms.m2>> \notin missingTowerRecordsPairs
                   THEN [i \in 1..Len(rels) |-> newRel(rels[i])] ELSE <<>>
      newURL == urlInfo(<<"https", "://", "music", ".", "tower", ".", "jp", "/">>
                          \o ms.m1 \o <<"/", "detail", "/">> \o ms.m2,
                        newRels)
  IN  IF Len(rels) = 0 THEN Nil
      ELSE rewriteResult(ms.m0, updatedRels,
                         IF Len(newRels) > 0 THEN <<newURL>> ELSE <<>>,
                         recmusicEditNote)

(***************************************************************************)
(* url.go: urlRewrites and doRewrite.  urlRewrites is a Go map, and        *)
(* doRewrite ranges over it and returns at the first rule it visits whose  *)
(* pattern matches.  The order of the visit is unspecified, so any rule    *)
(* whose pattern matches can be that first one: doRewrite is the set of    *)
(* the results the call can return.                                        *)
(***************************************************************************)
urlRewrites == {"tidal", "geocities", "tidalStore", "recmusic"}

FindStringSubmatch(re, s) ==
  CASE re = "tidal" -> tidalRegexp(s)
    [] re = "geocities" -> geocitiesRegexp(s)
    [] re = "tidalStore" -> tidalStoreRegexp(s)
    [] re = "recmusic" -> recmusicRegexp(s)

rewriteFunc(re, ms, rels) ==
  CASE re = "tidal" -> tidalRewrite(ms, rels)
    [] re = "geocities" -> geocitiesRewrite(ms, rels)
    [] re = "tidalStore" -> tidalStoreRewrite(ms, rels)
    [] re = "recmusic" -> recmusicRewrite(ms, rels)

\* the loop variable rel of the loop over rels of rule re, at the end of
\* the body (filterRels, which the Tidal rule calls, only reads it)
loopVar(re, ms, rel) ==
  CASE re = "tidal" -> rel
    [] re = "geocities" -> geocitiesBody(ms, rel)
    [] re = "tidalStore" -> tidalStoreBody(rel)
    [] re = "recmusic" -> recmusicBody(rel)

\* rangeVar for a loop whose variable is a pointer into the slice
rangeVar_byReference(rels, i, rel) == [rels EXCEPT ![i] = rel]

\* `for _, rel := range rels`: rel is a copy of the element, relInfo holds
\* no pointer, and an assignment to a field of rel leaves the slice as it is.
\* The value is the caller's slice after the round for element i, whose
\* loop variable has become rel
rangeVar(rels, i, rel) == rels

\* the caller's slice after the rounds i+1, ... of the loop of rule re
RECURSIVE rangeRels(_, _, _, _)
rangeRels(re, ms, rels, i) ==
  IF i >= Len(rels) THEN rels
  ELSE rangeRels(re, ms, rangeVar(rels, i + 1, loopVar(re, ms, rels[i + 1])), i + 1)

\* the slice rels of the caller of doRewrite, as the rule that doRewrite
\* visits leaves it
relsAfterRewrite(rm, orig, rels) ==
  LET matching == { re \in rm : FindStringSubmatch(re, orig).matched }
  IN  IF matching = {} THEN {rels}
      ELSE { rangeRels(re, FindStringSubmatch(re, orig), rels, 0) : re \in matching }

\* doRewrite not looking at newURLs when it decides that nothing changed
doRewrite_ignoreNewURLs(rm, orig, rels) ==
  LET matching == { re \in rm : FindStringSubmatch(re, orig).matched }
      visit(re) ==
        LET r == rewriteFunc(re, FindStringSubmatch(re, orig), rels)
        IN  IF r.nil \/ (r.rewritten = orig /\ Len(r.updatedRels) = 0)
              THEN Nil
              ELSE r
  IN  IF matching = {} THEN {Nil} ELSE { visit(re) : re \in matching }

doRewrite(rm, orig, rels) ==
  LET matching == { re \in rm : FindStringSubmatch(re, orig).matched }
      visit(re) ==
        LET r == rewriteFunc(re, FindStringSubmatch(re, orig), rels)
        IN  IF r.nil \/ (/\ r.rewritten = orig
                         /\ Len(r.updatedRels) = 0
                         /\ Len(r.newURLs) = 0)
              THEN Nil
              ELSE r
  IN  IF matching = {} THEN {Nil} ELSE { visit(re) : re \in matching }

(***************************************************************************)
(* The inputs: URLs built from schemes, hostnames and paths, and           *)
(* relationship lists of at most MaxRels relationships with ids 1, 2, ...  *)
(***************************************************************************)
Schemes == { <<"http", "://">>, <<"https", "://">> }

Hosts ==
  { <<"tidal", ".", "com">>,
    <<"listen", ".", "tidal", ".", "com">>,
    <<"desktop", ".", "stage", ".", "tidal", ".", "com">>,
    <<"test", ".", "tidal", ".", "com">>,
    <<"store", ".", "tidal", ".", "com">>,
    <<"www", ".", "geocities", ".", "com">>,
    <<"geocities", ".", "yahoo", ".", "co", ".", "jp">>,
    <<"geocities", ".", "jp">>,
    <<"recmusic", ".", "jp">>,
    <<"www", ".", "example", ".", "org">> }

Paths ==
  { <<"/">>,
    <<"/", "user">>,
    <<"/", "album", "/", "1">>,
    <<"/", "artist", "/", "1">>,
    <<"/", "browse", "/", "track", "/", "2">>,
    <<"/", "album", "/", "1", "/", "track", "/", "2">>,
    <<"/", "browse", "/", "album", "/", "1", "/", "track", "/", "2", "/">>,
    <<"/", "album", "/", "1", "?", "play", "=", "1">>,
    <<"/", "video", "/", "1", "/">>,
    <<"/", "test", "/", "1">>,
    <<"/", "store", "/", "album", "/", "1">>,
    <<"/", "us", "/", "store", "/", "track", "/", "1">>,
    <<"/", "artist", "/", "?", "id", "=", "1">>,
    <<"/", "sp", "/", "album", "/", "?", "id", "=", "1016070930">>,
    <<"/", "artist", "/", "?", "id", "=", "2001445271">>,
    <<"/", "album", "/", "?", "id", "=", "2001445271">> }

URLs == { sch \o h \o p : sch \in Schemes, h \in Hosts, p \in Paths }

TargetTypes == {"artist", "release", "recording", "work"}

someDate == date(2003, 7, 9)

\* a relationship as getURLInfo returns it, before its id is known
fetchedRel(targetType, ended) ==
  relInfo(0, IF ended THEN 176 ELSE 85, "phrase",
          IF targetType = "release" THEN someDate ELSE date(0, 0, 0),
          IF ended THEN someDate ELSE date(0, 0, 0),
          ended, targetType # "work", "mbid", "name", targetType)

RelLists ==
  UNION { { [i \in 1..n |-> [fetchedRel(tt[i], en[i]) EXCEPT !.id = i]] :
              tt \in [1..n -> TargetTypes], en \in [1..n -> BOOLEAN] } :
          n \in 0..MaxRels }

\* the relationships of the entity once the edits of updatedRels are applied
applyUpdatedRels(rels, updatedRels) ==
  [i \in 1..Len(rels) |->
     IF \E j \in 1..Len(updatedRels) : updatedRels[j].id = rels[i].id
       THEN updatedRels[CHOOSE j \in 1..Len(updatedRels) :
                          updatedRels[j].id = rels[i].id]
       ELSE rels[i]]

\* no identifier is being processed: the variables of updateURL and main
\* at rest
NoRun ==
  /\ args = [mbid |-> << >>, editNote |-> "", makeVotable |-> FALSE]
  /\ db = [m \in {} |-> None]
  /\ cancelled = ""
  /\ sent = << >>
  /\ newIdx = 0
  /\ resp = None
  /\ posted = None
  /\ lines = << >>
  /\ lineNo = 0
  /\ done = << >>

(***************************************************************************)
(* The rewrite engine run on one entity, and run again on its own output.  *)
(***************************************************************************)
Init ==
  /\ info \in { urlInfo(u, rels) : u \in URLs, rels \in RelLists }
  /\ res = Nil
  /\ pc = "fetched"
  /\ mode = "fetched"
  /\ original = None
  /\ desired = None
  /\ relPre = relPrefix(0)
  /\ relVals = NoVals
  /\ err = ""
  /\ NoRun

\* updateURL: res := doRewrite(urlRewrites, info.url, info.rels)
Rewrite ==
  /\ pc = "fetched"
  /\ res' \in doRewrite(urlRewrites, info.url, info.rels)
  /\ \E rels \in relsAfterRewrite(urlRewrites, info.url, info.rels) :
       info' = [info EXCEPT !.rels = rels]
  /\ pc' = "rewritten"
  /\ UNCHANGED <<mode, original, desired, relPre, relVals, err>>
  /\ UNCHANGED urlVars

\* the entity is fetched again after every edit of res went through
FetchUpdated ==
  /\ pc = "rewritten"
  /\ ~res.nil
  /\ info' = urlInfo(res.rewritten, applyUpdatedRels(info.rels, res.updatedRels))
  /\ mode' = "updated"
  /\ pc' = "fetched"
  /\ UNCHANGED <<res, original, desired, relPre, relVals, err>>
  /\ UNCHANGED urlVars

\* the entity is fetched again after only the rename of res went through
FetchRenamed ==
  /\ pc = "rewritten"
  /\ ~res.nil
  /\ res.rewritten # info.url
  /\ info' = urlInfo(res.rewritten, info.rels)
  /\ mode' = "renamed"
  /\ pc' = "fetched"
  /\ UNCHANGED <<res, original, desired, relPre, relVals, err>>
  /\ UNCHANGED urlVars

Next == Rewrite \/ FetchUpdated \/ FetchRenamed

Spec == Init /\ [][Next]_vars

(***************************************************************************)
(* Properties of the rewrite engine.                                       *)
(***************************************************************************)
WithHost(hosts, paths) ==
  { sch \o h \o p : sch \in Schemes, h \in hosts, p \in paths }

TidalStreamHosts ==
  { <<"tidal", ".", "com">>, <<"listen", ".", "tidal", ".", "com">>,
    <<"desktop", ".", "stage", ".", "tidal", ".", "com">> }

AlbumTrackPaths ==
  { <<"/", "album", "/", "1", "/", "track", "/", "2">>,
    <<"/", "browse", "/", "album", "/", "1", "/", "track", "/", "2", "/">> }

GeocitiesJapanHosts ==
  { <<"geocities", ".", "yahoo", ".", "co", ".", "jp">>, <<"geocities", ".", "jp">> }

GeocitiesHosts == GeocitiesJapanHosts \cup { <<"www", ".", "geocities", ".", "com">> }

TidalStoreURLs ==
  WithHost({ <<"store", ".", "tidal", ".", "com">> }, Paths)
    \cup WithHost({ <<"tidal", ".", "com">> },
                  { <<"/", "store", "/", "album", "/", "1">>,
                    <<"/", "us", "/", "store", "/", "track", "/", "1">> })

\* the RecMusic paths of Paths with the type and id they carry
RecmusicPaths ==
  { [path |-> <<"/", "artist", "/", "?", "id", "=", "1">>,
     type |-> "artist", id |-> "1", missing |-> FALSE],
    [path |-> <<"/", "sp", "/", "album", "/", "?", "id", "=", "1016070930">>,
     type |-> "album", id |-> "1016070930", missing |-> TRUE],
    [path |-> <<"/", "artist", "/", "?", "id", "=", "2001445271">>,
     type |-> "artist", id |-> "2001445271", missing |-> TRUE],
    [path |-> <<"/", "album", "/", "?", "id", "=", "2001445271">>,
     type |-> "album", id |-> "2001445271", missing |-> FALSE] }

Active(rels) == SelectSeq(rels, LAMBDA r : ~r.ended)

EndedAt(rels, d) ==
  [i \in 1..Len(rels) |-> [rels[i] EXCEPT !.ended = TRUE, !.endDate = d]]

\* C1: running the engine on its own prior output (the rewritten name with
\* the relationships of updatedRels put in place of the old ones) yields
\* no change, for every rule of urlRewrites
C1_RerunOnOutputIsNoChange ==
  (pc = "rewritten" /\ mode = "updated") => res.nil

\* C2: when a result renames the URL, the engine run on the rewritten name
\* with the same relationships yields no change
C2_RewrittenNameIsCanonical ==
  (pc = "rewritten" /\ mode = "renamed") => res.nil

C2_Witness ==
  /\ pc = "rewritten"
  /\ mode = "renamed"
  /\ info.url = <<"https", "://", "tidal", ".", "com", "/", "track", "/", "2">>
  /\ Len(info.rels) = 2
  /\ res.nil

\* C3: at most one pattern of urlRewrites matches a URL, so doRewrite
\* returns the same result whatever the order the rule table is visited in
C3_RuleSelectionDeterministic ==
  pc = "rewritten" =>
    /\ Cardinality({ re \in urlRewrites :
                       FindStringSubmatch(re, info.url).matched }) <= 1
    /\ doRewrite(urlRewrites, info.url, info.rels) = {res}

C3_Witness ==
  /\ pc = "rewritten"
  /\ info.url = <<"http", "://", "tidal", ".", "com",
                  "/", "us", "/", "store", "/", "track", "/", "1">>
  /\ Len(info.rels) = 1
  /\ ~res.nil

\* C4: /album/A/track/T resolves to https://tidal.com/track/T when some
\* relationship targets a recording, else to https://tidal.com/album/A when
\* some relationship targets a release, else the result is no change
C4_AlbumTrackDisambiguation ==
  (pc = "rewritten" /\ info.url \in WithHost(TidalStreamHosts, AlbumTrackPaths)) =>
    IF \E i \in 1..Len(info.rels) : info.rels[i].targetType = "recording"
      THEN /\ ~res.nil
           /\ res.rewritten =
                <<"https", "://", "tidal", ".", "com", "/", "track", "/", "2">>
    ELSE IF \E i \in 1..Len(info.rels) : info.rels[i].targetType = "release"
      THEN /\ ~res.nil
           /\ res.rewritten =
                <<"https", "://", "tidal", ".", "com", "/", "album", "/", "1">>
    ELSE res.nil

C4_Witness ==
  /\ pc = "rewritten"
  /\ info.url \in WithHost(TidalStreamHosts, AlbumTrackPaths)
  /\ Len(info.rels) = 2
  /\ info.rels[1].targetType = "release"
  /\ info.rels[2].targetType = "recording"
  /\ ~res.nil
  /\ res.rewritten = <<"https", "://", "tidal", ".", "com", "/", "track", "/", "2">>

\* C5: doRewrite returns nil exactly when no pattern matches, or the matched
\* transform returns nil, or its result keeps the name and has no updated
\* relationship and no new URL; otherwise it returns the transform's result
C5_NilExactlyWhenUnchanged ==
  pc = "rewritten" =>
    LET matching == { re \in urlRewrites :
                        FindStringSubmatch(re, info.url).matched }
    IN  IF matching = {} THEN res.nil
        ELSE \E re \in matching :
               LET t == rewriteFunc(re, FindStringSubmatch(re, info.url),
                                    info.rels)
               IN  IF t.nil THEN res.nil
                   ELSE IF /\ t.rewritten = info.url
                           /\ t.updatedRels = <<>>
                           /\ t.newURLs = <<>>
                     THEN res.nil
                     ELSE res = t

C5_Witness ==
  /\ pc = "rewritten"
  /\ info.url \in WithHost({ <<"recmusic", ".", "jp">> },
                           { <<"/", "artist", "/", "?", "id", "=", "1">> })
  /\ Len(info.rels) = 1
  /\ info.rels[1].ended
  /\ ~res.nil
  /\ res.rewritten = info.url
  /\ res.updatedRels = <<>>
  /\ Len(res.newURLs) = 1

\* C6: the GeoCities rule keeps the name and puts in updatedRels exactly the
\* relationships that were not ended, each ended at 2019-03-31 for the TLDs
\* jp and co.jp and at 2009-10-26 otherwise; with none active, no change
C6_GeocitiesRetirement ==
  (pc = "rewritten" /\ info.url \in WithHost(GeocitiesHosts, Paths)) =>
    LET endDate == IF info.url \in WithHost(GeocitiesJapanHosts, Paths)
                     THEN [year |-> 2019, month |-> 3, day |-> 31]
                     ELSE [year |-> 2009, month |-> 10, day |-> 26]
    IN  IF Active(info.rels) = <<>> THEN res.nil
        ELSE /\ ~res.nil
             /\ res.rewritten = info.url
             /\ res.updatedRels = EndedAt(Active(info.rels), endDate)
             /\ res.newURLs = <<>>

C6_Witness ==
  /\ pc = "rewritten"
  /\ info.url \in WithHost({ <<"geocities", ".", "yahoo", ".", "co", ".", "jp">> }, Paths)
  /\ Len(info.rels) = 2
  /\ info.rels[1].ended
  /\ ~info.rels[2].ended
  /\ ~res.nil
  /\ Len(res.updatedRels) = 1
  /\ res.updatedRels[1].endDate = [year |-> 2019, month |-> 3, day |-> 31]

\* C7: the Tidal Store rule keeps the name, sets every link type by target
\* type (artist 176, release 74, recording 254, others as they are), ends at
\* 2022-10-20 every relationship not ended and leaves the end date of an
\* ended one; updatedRels is exactly the relationships that changed, and
\* with none changed the result is no change
C7_TidalStoreReclassification ==
  (pc = "rewritten" /\ info.url \in TidalStoreURLs) =>
    LET linkType(r) == IF r.targetType = "artist" THEN 176
                       ELSE IF r.targetType = "release" THEN 74
                       ELSE IF r.targetType = "recording" THEN 254
                       ELSE r.linkTypeID
        want(r) == [r EXCEPT
                      !.linkTypeID = linkType(r),
                      !.ended = TRUE,
                      !.endDate = IF r.ended THEN r.endDate
                                  ELSE [year |-> 2022, month |-> 10, day |-> 20]]
        changed == SelectSeq(info.rels, LAMBDA r : want(r) # r)
    IN  IF changed = <<>> THEN res.nil
        ELSE /\ ~res.nil
             /\ res.rewritten = info.url
             /\ res.updatedRels = [i \in 1..Len(changed) |-> want(changed[i])]
             /\ res.newURLs = <<>>

C7_Witness ==
  /\ pc = "rewritten"
  /\ info.url \in TidalStoreURLs
  /\ Len(info.rels) = 2
  /\ info.rels[1].targetType = "artist" /\ info.rels[1].ended
  /\ info.rels[2].targetType = "release" /\ info.rels[2].ended
  /\ ~res.nil
  /\ Len(res.updatedRels) = 1
  /\ res.updatedRels[1].linkTypeID = 74
  /\ res.updatedRels[1].endDate = info.rels[2].endDate

\* C8: the RecMusic rule, given relationships, keeps the name and ends at
\* 2021-10-01 every relationship not ended; unless (type, id) is in the
\* exclusion set the result has exactly one new URL
\* https://music.tower.jp/<type>/detail/<id> with one new relationship per
\* old one, in order, with id 0, begin date 2021-10-01, no end date, not
\* ended and everything else as in the old one; for an excluded (type, id)
\* there is no new URL
C8_RecmusicMigration ==
  \A c \in RecmusicPaths :
    (/\ pc = "rewritten"
     /\ info.url \in WithHost({ <<"recmusic", ".", "jp">> }, {c.path})
     /\ Len(info.rels) > 0) =>
      LET cutover == [year |-> 2021, month |-> 10, day |-> 1]
          new(r) == [r EXCEPT !.id = 0, !.beginDate = cutover,
                              !.endDate = [year |-> 0, month |-> 0, day |-> 0],
                              !.ended = FALSE]
          tower == <<"https", "://", "music", ".", "tower", ".", "jp", "/",
                     c.type, "/", "detail", "/", c.id>>
      IN  IF c.missing /\ Active(info.rels) = <<>> THEN res.nil
          ELSE /\ ~res.nil
               /\ res.rewritten = info.url
               /\ res.updatedRels = EndedAt(Active(info.rels), cutover)
               /\ res.newURLs =
                    IF c.missing THEN <<>>
                    ELSE << [url |-> tower,
                             rels |-> [i \in 1..Len(info.rels) |->
                                         new(info.rels[i])]] >>

C8_Witness ==
  /\ pc = "rewritten"
  /\ info.url \in WithHost({ <<"recmusic", ".", "jp">> },
                           { <<"/", "album", "/", "?", "id", "=", "2001445271">> })
  /\ Len(info.rels) = 2
  /\ info.rels[1].ended
  /\ ~info.rels[2].ended
  /\ ~res.nil
  /\ Len(res.updatedRels) = 1
  /\ Len(res.newURLs) = 1
  /\ Len(res.newURLs[1].rels) = 2

(***************************************************************************)
(* The relationship reconciler called on one relationship: the inputs are  *)
(* an original (or none) and a desired relationship, and the map either    *)
(* is new or holds the parameters of an earlier relationship of the batch. *)
(***************************************************************************)
RelInputs ==
  { relInfo(1, lt, ph, b, e, en, bw, "mbid", nm, "artist") :
      lt \in {74, 176}, ph \in {"phrase", "other phrase"},
      b \in {date(0, 0, 0), someDate},
      e \in {date(0, 0, 0), someDate, date(2021, 10, 0)},
      en \in BOOLEAN, bw \in BOOLEAN, nm \in {"name", "other name"} }

\* the parameters updateURL has set for relationship 0 of the batch
EarlierVals ==
  LET first == [fetchedRel("artist", FALSE) EXCEPT !.id = 7]
  IN  setRelEditVals(NoVals, relPrefix(0),
                     [first EXCEPT !.ended = TRUE, !.endDate = geocitiesEndDate],
                     first).vals

InitRel ==
  /\ info = urlInfo(<< >>, << >>)
  /\ res = Nil
  /\ mode = "fetched"
  /\ pc = "call"
  /\ desired \in RelInputs \cup { [r EXCEPT !.id = 0] : r \in RelInputs }
  /\ original \in IF desired.id = 0 THEN {None} ELSE RelInputs \cup {None}
  /\ \/ relPre = relPrefix(0) /\ relVals = NoVals
     \/ relPre = relPrefix(1) /\ relVals = EarlierVals
  /\ err = ""
  /\ NoRun

\* updateURL: err := setRelEditVals(vals, pre, rel, orig)
CallSetRelEditVals ==
  /\ pc = "call"
  /\ LET r == setRelEditVals(relVals, relPre, desired, original)
     IN  relVals' = r.vals /\ err' = r.err
  /\ pc' = "returned"
  /\ UNCHANGED <<info, res, mode, original, desired, relPre>>
  /\ UNCHANGED urlVars

NextRel == CallSetRelEditVals

SpecRel == InitRel /\ [][NextRel]_vars

(***************************************************************************)
(* Properties of the relationship reconciler.                              *)
(***************************************************************************)
\* the fields the call has set for its relationship
EmittedFields == { k[2] : k \in { x \in DOMAIN relVals : x[1] = relPre } }

EndDateFields ==
  {"period.end_date.year", "period.end_date.month", "period.end_date.day"}

BeginDateFields ==
  {"period.begin_date.year", "period.begin_date.month", "period.begin_date.day"}

DiffersOnlyInEnd ==
  /\ original # None
  /\ desired # original
  /\ [desired EXCEPT !.ended = original.ended, !.endDate = original.endDate]
       = original

Atoi(str) ==
  IF str = "" THEN 0
  ELSE CHOOSE n \in (1..31) \cup {74, 176, 2003, 2021} : ToString(n) = str

\* orig with exactly the emitted fields of the request written over it
ApplyVals(orig, vals, pre) ==
  LET has(f) == <<pre, f>> \in DOMAIN vals
      num(f, old) == IF has(f) THEN Atoi(vals[<<pre, f>>]) ELSE old
      dateOf(f, old) ==
        [year |-> num(f \o ".year", old.year),
         month |-> num(f \o ".month", old.month),
         day |-> num(f \o ".day", old.day)]
  IN  [orig EXCEPT
         !.linkTypeID = num("link_type", @),
         !.beginDate = dateOf("period.begin_date", @),
         !.endDate = dateOf("period.end_date", @),
         !.ended = IF has("period.ended")
                     THEN vals[<<pre, "period.ended">>] = "1" ELSE @]

\* C10: whenever setRelEditVals succeeds in edit mode, the original with the
\* emitted fields written over it is the desired relationship
C10_RoundTrip ==
  (pc = "returned" /\ err = "" /\ original # None) =>
    ApplyVals(original, relVals, relPre) = desired

\* the map as it was handed to setRelEditVals
ValsBefore == IF relPre = relPrefix(0) THEN NoVals ELSE EarlierVals

\* C11: whenever the original is present and the desired relationship equals
\* it in all ten fields, setRelEditVals returns the no-change error and
\* leaves the map as it was
C11_NoChangeError ==
  (pc = "returned" /\ original # None /\ desired = original) =>
    /\ err = "no changes for rel"
    /\ relVals = ValsBefore

C11_Witness ==
  /\ pc = "returned"
  /\ original # None
  /\ desired = original
  /\ desired.ended /\ desired.endDate = someDate
  /\ relVals = EarlierVals
  /\ err = "no changes for rel"

\* C12: whenever the original is none, setRelEditVals returns the
\* invalid-rel error and leaves the map as it was if the desired id is not
\* 0, and returns no error if the desired id is 0
C12_InvalidRelError ==
  (pc = "returned" /\ original = None) =>
    IF desired.id # 0
      THEN err = "invalid rel" /\ relVals = ValsBefore
      ELSE err = ""

C12_Witness ==
  /\ pc = "returned"
  /\ original = None
  /\ desired.id # 0
  /\ relVals = EarlierVals
  /\ err = "invalid rel"

(***************************************************************************)
(* url.go: updateURL, the parameter maps it builds.                        *)
(***************************************************************************)
\* Go's < on strings is byte-wise: the type tags in that order
typeTags == <<"artist", "recording", "release", "url", "work">>

typeLess(a, b) ==
  (CHOOSE i \in 1..Len(typeTags) : typeTags[i] = a)
    < (CHOOSE i \in 1..Len(typeTags) : typeTags[i] = b)

\* url.go 34-40: the parameters of the rename edit
renameVals(rewritten, editNote, makeVotable) ==
  LET v == SetVal(SetVal(NoVals, <<"edit-url.", "url">>, rewritten),
                  <<"edit-url.", "edit_note">>, editNote)
  IN  IF makeVotable THEN SetVal(v, <<"edit-url.", "make_votable">>, "1") ELSE v

\* url.go 53-56, 61: oldRels[id], the last relationship of rels with that id
oldRels(rels, id) ==
  LET hits == { i \in 1..Len(rels) : rels[i].id = id }
  IN  IF hits = {} THEN None
      ELSE rels[CHOOSE i \in hits : \A j \in hits : j <= i]

\* url.go 58-64: the loop over res.updatedRels, from its i-th round on
RECURSIVE editVals(_, _, _, _)
editVals(vals, i, updatedRels, rels) ==
  IF i >= Len(updatedRels) THEN [vals |-> vals, err |-> ""]
  ELSE LET rel == updatedRels[i + 1]
           r == setRelEditVals(vals, relPrefix(i), rel, oldRels(rels, rel.id))
       IN  IF r.err # "" THEN r
           ELSE editVals(r.vals, i + 1, updatedRels, rels)

\* directionError raised for every relationship that is not backward
directionError_forwardOnly(rel) == ~rel.backward

\* url.go 82
directionError(rel) ==
  \/ rel.backward /\ typeLess("url", rel.targetType)
  \/ ~rel.backward /\ typeLess(rel.targetType, "url")

\* setEntities with the URL always in entity slot 0
setEntities_urlFirst(vals, pre, rel, url) ==
  SetVal(SetVal(SetVal(SetVal(vals,
    <<pre, "entity.0.url">>, url),
    <<pre, "entity.0.type">>, "url"),
    <<pre, "entity.1.gid">>, rel.targetMBID),
    <<pre, "entity.1.type">>, rel.targetType)

\* url.go 85-92
setEntities(vals, pre, rel, url) ==
  LET urlPre == IF rel.backward THEN "entity.1" ELSE "entity.0"
      targetPre == IF rel.backward THEN "entity.0" ELSE "entity.1"
  IN  SetVal(SetVal(SetVal(SetVal(vals,
        <<pre, urlPre \o ".url">>, url),
        <<pre, urlPre \o ".type">>, "url"),
        <<pre, targetPre \o ".gid">>, rel.targetMBID),
        <<pre, targetPre \o ".type">>, rel.targetType)

\* url.go 74-93: the loop over the relationships of a new URL, from its
\* i-th round on
RECURSIVE createVals(_, _, _)
createVals(vals, i, newInfo) ==
  IF i >= Len(newInfo.rels) THEN [vals |-> vals, err |-> ""]
  ELSE LET rel == newInfo.rels[i + 1]
           pre == relPrefix(i)
           r == setRelEditVals(vals, pre, rel, None)
       IN  IF r.err # "" THEN r
           ELSE IF directionError(rel)
             THEN [vals |-> r.vals, err |-> "incorrect direction for relationship"]
           ELSE createVals(setEntities(r.vals, pre, rel, newInfo.url), i + 1, newInfo)

\* rel.go 131-134: postRelEdit's additional parameters
postRelEditVals(vals, editNote, makeVotable) ==
  LET v == SetVal(vals, <<"rel-editor.", "edit_note">>, editNote)
  IN  IF makeVotable THEN SetVal(v, <<"rel-editor.", "make_votable">>, "1") ELSE v

(***************************************************************************)
(* rel.go: postRelEdit, the interpretation of the response.                *)
(***************************************************************************)
\* editFailed not naming the index of the outcome
editFailed_noIndex(i, ed) ==
  "relationship edit with type " \o ToString(ed.edit_type) \o " failed: "
    \o ToString(ed.response)

\* rel.go 155: the error for the i-th outcome, which is not a success
editFailed(i, ed) ==
  "relationship edit " \o ToString(i) \o " with type " \o ToString(ed.edit_type)
    \o " failed: " \o ToString(ed.response)

\* editsLoop not stopping at an outcome that is not a success
RECURSIVE editsLoop_skipFailed(_, _, _)
editsLoop_skipFailed(edits, i, got) ==
  IF i >= Len(edits) THEN [ids |-> got, err |-> ""]
  ELSE IF edits[i + 1].response # 1 THEN editsLoop_skipFailed(edits, i + 1, got)
  ELSE editsLoop_skipFailed(edits, i + 1, Append(got, edits[i + 1].relationship_id))

\* rel.go 152-159: the loop over data.Edits, from its i-th round on
RECURSIVE editsLoop(_, _, _)
editsLoop(edits, i, got) ==
  IF i >= Len(edits) THEN [ids |-> got, err |-> ""]
  ELSE LET ed == edits[i + 1]
       IN  IF ed.response # 1
             THEN [ids |-> got, err |-> editFailed(i, ed)]
             ELSE editsLoop(edits, i + 1, Append(got, ed.relationship_id))

\* postRelEdit taking a failed post for an empty list of outcomes
postRelEdit_errorIgnored(r) ==
  CASE r.kind = "error" -> [ids |-> << >>, err |-> ""]
    [] r.kind = "badJSON" -> [ids |-> << >>, err |-> "unmarshaling response"]
    [] r.kind = "edits" -> editsLoop(r.edits, 0, << >>)

\* rel.go 136-159: what postRelEdit returns for the response r of its post
postRelEdit(r) ==
  CASE r.kind = "error" -> [ids |-> << >>, err |-> "got error"]
    [] r.kind = "badJSON" -> [ids |-> << >>, err |-> "unmarshaling response"]
    [] r.kind = "edits" -> editsLoop(r.edits, 0, << >>)

(***************************************************************************)
(* url.go: updateURL from one network call to the next.  The value is      *)
(* where updateURL is next, pc, with its map, its error and its position   *)
(* in res.newURLs: at the call of send for the next request, or at its     *)
(* return.                                                                 *)
(***************************************************************************)
\* needsRename not comparing the name with the URL
needsRename_always(inf, r) == r.rewritten # << >>

\* url.go 32
needsRename(inf, r) == r.rewritten # << >> /\ r.rewritten # inf.url

\* url.go 53-65: the edits of res.updatedRels, up to the call of send
editStep(inf, r, makeVotable) ==
  LET b == editVals(NoVals, 0, r.updatedRels, inf.rels)
  IN  IF b.err # ""
        THEN [pc |-> "return", vals |-> b.vals, err |-> b.err, newIdx |-> 0]
        ELSE [pc |-> "editWait",
              vals |-> postRelEditVals(b.vals, r.editNote, makeVotable),
              err |-> "", newIdx |-> 0]

\* createStep posting what it has built when a relationship fails
createStep_ignoreError(r, k, makeVotable) ==
  LET b == createVals(NoVals, 0, r.newURLs[k])
  IN  [pc |-> "createWait",
       vals |-> postRelEditVals(b.vals, r.editNote, makeVotable),
       err |-> "", newIdx |-> k]

\* url.go 73-94: the relationships of the k-th new URL, up to the call of
\* send
createStep(r, k, makeVotable) ==
  LET b == createVals(NoVals, 0, r.newURLs[k])
  IN  IF b.err # ""
        THEN [pc |-> "return", vals |-> b.vals, err |-> b.err, newIdx |-> k]
        ELSE [pc |-> "createWait",
              vals |-> postRelEditVals(b.vals, r.editNote, makeVotable),
              err |-> "", newIdx |-> k]

\* the statements of updateURL with the new URLs before the edits
stages_createFirst == <<"rename", "create", "edit">>

\* url.go 32, 52, 72: the statements of updateURL after doRewrite, in order
stages == <<"rename", "edit", "create">>

\* the statement after st, "return" after the last (url.go 103)
stageAfter(st) ==
  LET i == CHOOSE j \in 1..Len(stages) : stages[j] = st
  IN  IF i = Len(stages) THEN "return" ELSE stages[i + 1]

\* updateURL from statement st on; k is the new URL the loop over
\* res.newURLs is at
RECURSIVE toStage(_, _, _, _, _)
toStage(st, k, inf, r, makeVotable) ==
  CASE st = "rename" ->
         IF needsRename(inf, r)
           THEN [pc |-> "renameWait",
                 vals |-> renameVals(r.rewritten, r.editNote, makeVotable),
                 err |-> "", newIdx |-> 0]
           ELSE toStage(stageAfter(st), 1, inf, r, makeVotable)
    [] st = "edit" ->
         IF Len(r.updatedRels) > 0
           THEN editStep(inf, r, makeVotable)
           ELSE toStage(stageAfter(st), 1, inf, r, makeVotable)
    [] st = "create" ->
         IF k <= Len(r.newURLs)
           THEN createStep(r, k, makeVotable)
           ELSE toStage(stageAfter(st), 1, inf, r, makeVotable)
    [] st = "return" ->
         [pc |-> "return", vals |-> NoVals, err |-> "", newIdx |-> 0]

\* url.go 23-30: what doRewrite returned, with the caller's edit note
withEditNote(r, editNote) ==
  IF r.nil \/ editNote = "" THEN r ELSE [r EXCEPT !.editNote = editNote]

\* url.go 24-27, 32: after doRewrite
toStart(inf, r, makeVotable) ==
  IF r.nil THEN [pc |-> "return", vals |-> NoVals, err |-> "", newIdx |-> 0]
  ELSE toStage(stages[1], 1, inf, r, makeVotable)

(***************************************************************************)
(* The remote system and the inputs of updateURL and main.  A line of      *)
(* standard input, and so an MBID, is the sequence of its characters.      *)
(***************************************************************************)
MaxEdits == 2

MaxLines == 2

tidalMBID ==
  <<
     "4", "0", "d", "2", "c", "6", "9", "9", "-", "f", "6", "1",
     "5", "-", "4", "f", "9", "5", "-", "b", "2", "1", "2", "-",
     "2", "4", "c", "3", "4", "4", "5", "7", "2", "3", "3", "3" >>

recmusicMBID ==
  <<
     "4", "e", "1", "3", "5", "6", "9", "1", "-", "f", "d", "c",
     "1", "-", "4", "1", "2", "7", "-", "a", "b", "6", "9", "-",
     "6", "7", "0", "9", "5", "a", "a", "0", "9", "c", "4", "4" >>

\* a line that is cut short
shortLine ==
  <<
     "4", "e", "1", "3", "5", "6", "9", "1", "-", "f", "d", "c",
     "1", "-", "4", "1", "2", "7", "-", "a", "b", "6", "9" >>

\* the scanner fails instead of returning a line
ScanError == <<"read error">>

HexDigits ==
  {"0", "1", "2", "3", "4", "5", "6", "7", "8", "9",
   "a", "b", "c", "d", "e", "f", "A", "B", "C", "D", "E", "F"}

\* mbidRegexp.MatchString(ln):
\* `(?i)^[0-9a-f]{8}-[0-9a-f]{4}-[0-9a-f]{4}-[0-9a-f]{4}-[0-9a-f]{12}$`
mbidRegexp(ln) ==
  /\ Len(ln) = 36
  /\ \A i \in 1..36 :
       IF i \in {9, 14, 19, 24} THEN ln[i] = "-" ELSE ln[i] \in HexDigits

\* readMBID: the error it returns for the line the scanner gives ("" for nil)
readMBID(ln) ==
  IF ln = ScanError THEN "read error"
  ELSE IF ~mbidRegexp(ln) THEN "invalid MBID"
  ELSE ""

\* the URLs of the entities the remote system holds
ProcessURLs ==
  { <<"http", "://", "listen", ".", "tidal", ".", "com", "/", "artist", "/", "1">>,
    <<"https", "://", "tidal", ".", "com", "/", "album", "/", "1">>,
    <<"http", "://", "www", ".", "geocities", ".", "com", "/", "user">>,
    <<"https", "://", "store", ".", "tidal", ".", "com", "/", "artist", "/", "1">>,
    <<"https", "://", "recmusic", ".", "jp", "/", "artist", "/", "?", "id", "=", "1">>,
    <<"https", "://", "recmusic", ".", "jp", "/", "sp", "/", "album", "/", "?", "id", "=",
      "1016070930">>,
    <<"https", "://", "www", ".", "example", ".", "org", "/">> }

\* the relationships of an entity of the remote system: of either
\* direction, whatever the type of the target
ProcessRelLists ==
  UNION { { [i \in 1..n |-> [fetchedRel(tt[i], en[i]) EXCEPT !.id = i,
                                                           !.backward = bw[i]]] :
              tt \in [1..n -> {"release", "work"}], en \in [1..n -> BOOLEAN],
              bw \in [1..n -> BOOLEAN] } :
          n \in 0..MaxRels }

ProcessEntities == { urlInfo(u, rels) : u \in ProcessURLs, rels \in ProcessRelLists }

\* rel.go 142-148: the outcomes of a response of /relationship-editor: an
\* edit made, a relationship created, a failure
Outcomes ==
  { [relationship_id |-> 0, edit_type |-> 91, response |-> 1],
    [relationship_id |-> 5, edit_type |-> 90, response |-> 1],
    [relationship_id |-> 0, edit_type |-> 90, response |-> 2] }

\* what send can return for GET /url/<mbid>/edit: an error, a page that
\* getURLInfo cannot read, the page of the entity
GetResponses(mbid) ==
  {[kind |-> "error"], [kind |-> "badPage"]}
    \cup (IF mbid \in DOMAIN db THEN {[kind |-> "page", entity |-> db[mbid]]} ELSE {})

\* what send can return for POST /url/<mbid>/edit: an error, a body without
\* or with the URL of an edit
RenameResponses == {[kind |-> "error"], [kind |-> "noEditID"], [kind |-> "editID"]}

\* what send can return for POST /relationship-editor: an error, a body that
\* is not JSON, a list of outcomes
RelEditResponses ==
  {[kind |-> "error"], [kind |-> "badJSON"]}
    \cup { [kind |-> "edits", edits |-> e] :
             e \in UNION { [1..n -> Outcomes] : n \in 0..MaxEdits } }

\* server.go 137-158: the request send issues where updateURL is
request(at, mbid, vals) ==
  CASE at = "getWait" ->
         [method |-> "GET", path |-> <<"/url/">> \o mbid \o <<"/edit">>, vals |-> NoVals]
    [] at = "renameWait" ->
         [method |-> "POST", path |-> <<"/url/">> \o mbid \o <<"/edit">>, vals |-> vals]
    [] OTHER ->
         [method |-> "POST", path |-> <<"/relationship-editor">>, vals |-> vals]

(***************************************************************************)
(* updateURL called for one identifier, with a context that its caller can *)
(* cancel.  pc is where updateURL is: inside send before a request         *)
(* ("...Wait", in limiter.Wait), inside send after it ("...Sent"), or at   *)
(* its return.                                                             *)
(***************************************************************************)
InitURL ==
  /\ info = urlInfo(<< >>, << >>)
  /\ res = Nil
  /\ pc = "getWait"
  /\ mode = "fetched"
  /\ original = None
  /\ desired = None
  /\ relPre = relPrefix(0)
  /\ relVals = NoVals
  /\ err = ""
  /\ args \in { [mbid |-> tidalMBID, editNote |-> n, makeVotable |-> v] :
                  n \in {"", "custom note"}, v \in BOOLEAN }
  /\ db \in { [m \in {tidalMBID} |-> e] : e \in ProcessEntities }
            \cup { [m \in {recmusicMBID} |-> e] :
                     e \in { urlInfo(u, << >>) : u \in ProcessURLs } }
  /\ cancelled = ""
  /\ sent = << >>
  /\ newIdx = 0
  /\ resp = None
  /\ posted = None
  /\ lines = << >>
  /\ lineNo = 0
  /\ done = << >>

\* updateURL goes on to n
Goto(n) ==
  /\ pc' = n.pc
  /\ relVals' = n.vals
  /\ err' = n.err
  /\ newIdx' = n.newIdx

\* the caller cancels ctx
Cancel ==
  /\ pc \in {"getWait", "getSent", "renameWait", "renameSent",
             "editWait", "editSent", "createWait", "createSent"}
  /\ cancelled = ""
  /\ cancelled' = pc
  /\ UNCHANGED <<info, res, pc, mode, original, desired, relPre, relVals, err,
                 args, db, sent, newIdx, resp, posted, lines, lineNo, done>>

\* server.go 130-158: send waits for the limiter, which fails when ctx is
\* done, and issues the request
Send ==
  /\ pc \in {"getWait", "renameWait", "editWait", "createWait"}
  /\ IF cancelled # ""
       THEN /\ err' = IF pc = "getWait"
                        THEN "failed getting URL: context canceled"
                        ELSE "context canceled"
            /\ resp' = [kind |-> "error"]
            /\ posted' = IF pc \in {"editWait", "createWait"}
                           THEN [ids |-> << >>, err |-> "context canceled"]
                           ELSE posted
            /\ pc' = "return"
            /\ UNCHANGED sent
       ELSE /\ sent' = Append(sent, request(pc, args.mbid, relVals))
            /\ pc' = CASE pc = "getWait" -> "getSent"
                       [] pc = "renameWait" -> "renameSent"
                       [] pc = "editWait" -> "editSent"
                       [] pc = "createWait" -> "createSent"
            /\ UNCHANGED <<err, resp, posted>>
  /\ UNCHANGED <<info, res, mode, original, desired, relPre, relVals,
                 args, db, cancelled, newIdx, lines, lineNo, done>>

\* url.go 19-30 and on: getURLInfo returns, doRewrite
GetURLInfoReturns ==
  /\ pc = "getSent"
  /\ \E r \in GetResponses(args.mbid) :
       /\ resp' = r
       /\ IF r.kind # "page"
            THEN /\ err' = "failed getting URL: " \o r.kind
                 /\ pc' = "return"
                 /\ UNCHANGED <<info, res, relVals, newIdx>>
            ELSE \E rr \in doRewrite(urlRewrites, r.entity.url, r.entity.rels),
                    rels \in relsAfterRewrite(urlRewrites, r.entity.url, r.entity.rels) :
                   /\ info' = [r.entity EXCEPT !.rels = rels]
                   /\ res' = withEditNote(rr, args.editNote)
                   /\ Goto(toStart([r.entity EXCEPT !.rels = rels],
                                   withEditNote(rr, args.editNote),
                                   args.makeVotable))
  /\ UNCHANGED <<mode, original, desired, relPre,
                 args, db, cancelled, sent, posted, lines, lineNo, done>>

\* url.go 41-50 and on: the post of the rename edit returns
RenameReturns ==
  /\ pc = "renameSent"
  /\ \E r \in RenameResponses :
       /\ resp' = r
       /\ IF r.kind = "error"
            THEN pc' = "return" /\ err' = "got error" /\ UNCHANGED <<relVals, newIdx>>
          ELSE IF r.kind = "noEditID"
            THEN pc' = "return" /\ err' = "didn't find edit ID"
                 /\ UNCHANGED <<relVals, newIdx>>
          ELSE Goto(toStage(stageAfter("rename"), 1, info, res, args.makeVotable))
  /\ UNCHANGED <<info, res, mode, original, desired, relPre,
                 args, db, cancelled, sent, posted, lines, lineNo, done>>

\* url.go 65-69 and on: postRelEdit returns for the edits of updatedRels
EditReturns ==
  /\ pc = "editSent"
  /\ \E r \in RelEditResponses :
       /\ resp' = r
       /\ posted' = postRelEdit(r)
       /\ IF postRelEdit(r).err # ""
            THEN pc' = "return" /\ err' = postRelEdit(r).err
                 /\ UNCHANGED <<relVals, newIdx>>
            ELSE Goto(toStage(stageAfter("edit"), 1, info, res, args.makeVotable))
  /\ UNCHANGED <<info, res, mode, original, desired, relPre,
                 args, db, cancelled, sent, lines, lineNo, done>>

\* url.go 94-100 and on: postRelEdit returns for the relationships of a new
\* URL
CreateReturns ==
  /\ pc = "createSent"
  /\ \E r \in RelEditResponses :
       /\ resp' = r
       /\ posted' = postRelEdit(r)
       /\ IF postRelEdit(r).err # ""
            THEN pc' = "return" /\ err' = postRelEdit(r).err
                 /\ UNCHANGED <<relVals, newIdx>>
            ELSE Goto(toStage("create", newIdx + 1, info, res, args.makeVotable))
  /\ UNCHANGED <<info, res, mode, original, desired, relPre,
                 args, db, cancelled, sent, lines, lineNo, done>>

updateURL == Send \/ GetURLInfoReturns \/ RenameReturns \/ EditReturns \/ CreateReturns

NextURL == Cancel \/ updateURL

SpecURL == InitURL /\ [][NextURL]_vars

(***************************************************************************)
(* main.go: main with -action urls.  It reads the lines of standard input  *)
(* and calls updateURL for each, with a context that is never cancelled.   *)
(***************************************************************************)
\* main_test.go 498-513: the entities of two identifiers
testDB ==
  [m \in {tidalMBID, recmusicMBID} |->
     IF m = tidalMBID
       THEN urlInfo(<<"http", "://", "listen", ".", "tidal", ".", "com",
                      "/", "artist", "/", "1">>, << >>)
       ELSE urlInfo(<<"https", "://", "recmusic", ".", "jp",
                      "/", "artist", "/", "?", "id", "=", "1">>,
                    << relInfo(423, 980, "", date(0, 0, 0), date(0, 0, 0), FALSE, TRUE,
                               "63a5c79f-697e-47e0-975d-1e2087a454aa", "", "release") >>)]

InputLines == {tidalMBID, recmusicMBID, shortLine, ScanError}

InitMain ==
  /\ info = urlInfo(<< >>, << >>)
  /\ res = Nil
  /\ pc = "read"
  /\ mode = "fetched"
  /\ original = None
  /\ desired = None
  /\ relPre = relPrefix(0)
  /\ relVals = NoVals
  /\ err = ""
  /\ args \in { [mbid |-> << >>, editNote |-> n, makeVotable |-> v] :
                  n \in {"", "custom note"}, v \in BOOLEAN }
  /\ db = testDB
  /\ cancelled = ""
  /\ sent = << >>
  /\ newIdx = 0
  /\ resp = None
  /\ posted = None
  /\ lines \in UNION { [1..n -> InputLines] : n \in 0..MaxLines }
  /\ lineNo = 0
  /\ done = << >>

\* main ending the run when updateURL fails
afterUpdateURL_stopOnError(e) == IF e # "" THEN "fatal" ELSE "read"

\* main.go 88-90: the error of updateURL is logged and the loop goes on
afterUpdateURL(e) == "read"

\* main.go 83-88: readMBID; at the end of the input the loop is left, a
\* line that cannot be read or is no MBID ends the run (log.Fatal),
\* updateURL is called for an MBID
ReadMBID ==
  /\ pc = "read"
  /\ IF lineNo >= Len(lines)
       THEN /\ pc' = "exit"
            /\ UNCHANGED <<info, res, relVals, err, args, sent, newIdx, resp, posted, lineNo>>
     ELSE IF readMBID(lines[lineNo + 1]) # ""
       THEN /\ pc' = "fatal"
            /\ lineNo' = lineNo + 1
            /\ UNCHANGED <<info, res, relVals, err, args, sent, newIdx, resp, posted>>
     ELSE /\ pc' = "getWait"
          /\ lineNo' = lineNo + 1
          /\ args' = [args EXCEPT !.mbid = lines[lineNo + 1]]
          /\ info' = urlInfo(<< >>, << >>)
          /\ res' = Nil
          /\ relVals' = NoVals
          /\ err' = ""
          /\ sent' = << >>
          /\ newIdx' = 0
          /\ resp' = None
          /\ posted' = None
  /\ UNCHANGED <<mode, original, desired, relPre, db, cancelled, lines, done>>

\* main.go 88-90: updateURL has returned
UpdateURLReturns ==
  /\ pc = "return"
  /\ done' = Append(done, [mbid |-> args.mbid, failed |-> err # ""])
  /\ pc' = afterUpdateURL(err)
  /\ UNCHANGED <<info, res, mode, original, desired, relPre, relVals, err,
                 args, db, cancelled, sent, newIdx, resp, posted, lines, lineNo>>

NextMain == ReadMBID \/ updateURL \/ UpdateURLReturns

SpecMain == InitMain /\ [][NextMain]_vars

(***************************************************************************)
(* Properties of updateURL, postRelEdit and main.                          *)
(***************************************************************************)
\* what a request of sent is: the fetch of the entity, the rename edit, the
\* batch of edits or a batch of creations
Kind(q) ==
  IF q.method = "GET" THEN "fetch"
  ELSE IF q.path # <<"/relationship-editor">> THEN "rename"
  ELSE IF /\ <<relPrefix(0), "action">> \in DOMAIN q.vals
          /\ q.vals[<<relPrefix(0), "action">>] = "add" THEN "create"
  ELSE "edit"

Requests(kind) == SelectSeq(sent, LAMBDA q : Kind(q) = kind)

\* updateURL has come to the k-th new URL of res
AtNewURL(k) == ~res.nil /\ k >= 1 /\ k <= Len(res.newURLs) /\ newIdx = k

\* the relationships of a new URL whose direction contradicts the order of
\* the type tags
WrongDirection(newInfo) ==
  { i \in 1..Len(newInfo.rels) :
      LET rel == newInfo.rels[i]
      IN  \/ rel.backward /\ rel.targetType \in {"work"}
          \/ ~rel.backward /\ rel.targetType \in {"artist", "recording", "release"} }

\* C13: when updateURL comes to create the relationships of a new URL, it
\* returns the direction error iff one of them is backward with a target
\* type after "url" or not backward with a target type before "url", and
\* then no request that creates relationships for that URL is ever issued
C13_DirectionError ==
  ~res.nil =>
    \A k \in 1..Len(res.newURLs) :
      AtNewURL(k) =>
        /\ (err = "incorrect direction for relationship")
             <=> (WrongDirection(res.newURLs[k]) # {})
        /\ WrongDirection(res.newURLs[k]) # {} =>
             /\ pc = "return"
             /\ Len(Requests("create")) = k - 1

C13_Witness ==
  /\ AtNewURL(1)
  /\ pc = "return"
  /\ err = "incorrect direction for relationship"
  /\ Len(res.newURLs[1].rels) = 2
  /\ WrongDirection(res.newURLs[1]) = {2}
  /\ res.newURLs[1].rels[2].backward
  /\ Len(Requests("edit")) = 1
  /\ Len(Requests("create")) = 0

\* C14: in every creation request that is issued, for every relationship of
\* the new URL, the URL (key url, type "url") is entity 0 and the target
\* (key gid, its type) entity 1 when the relationship is not backward, and
\* the other way round when it is, and the type of entity 0 does not sort
\* after the type of entity 1
C14_EntitySlotsOrdered ==
  \A k \in 1..Len(Requests("create")) :
    LET v == Requests("create")[k].vals
        newInfo == res.newURLs[k]
    IN  \A i \in 1..Len(newInfo.rels) :
          LET rel == newInfo.rels[i]
              pre == relPrefix(i - 1)
              u == IF rel.backward THEN "entity.1" ELSE "entity.0"
              t == IF rel.backward THEN "entity.0" ELSE "entity.1"
          IN  /\ { f \in {"entity.0.url", "entity.0.gid", "entity.0.type",
                          "entity.1.url", "entity.1.gid", "entity.1.type"} :
                     <<pre, f>> \in DOMAIN v }
                   = {u \o ".url", u \o ".type", t \o ".gid", t \o ".type"}
              /\ v[<<pre, u \o ".url">>] = newInfo.url
              /\ v[<<pre, u \o ".type">>] = "url"
              /\ v[<<pre, t \o ".gid">>] = rel.targetMBID
              /\ v[<<pre, t \o ".type">>] = rel.targetType
              /\ ~typeLess(v[<<pre, "entity.1.type">>], v[<<pre, "entity.0.type">>])

C14_Witness ==
  /\ Len(Requests("create")) = 1
  /\ Len(res.newURLs[1].rels) = 2
  /\ res.newURLs[1].rels[1].backward
  /\ ~res.newURLs[1].rels[2].backward
  /\ Requests("create")[1].vals[<<relPrefix(0), "entity.0.type">>] = "release"
  /\ Requests("create")[1].vals[<<relPrefix(1), "entity.0.type">>] = "url"

\* C15: for a response of outcomes e_0..e_n, postRelEdit returns, if k is
\* the smallest index whose response is not 1, the relationship ids of
\* e_0..e_(k-1) in order and an error that names k and the response of e_k,
\* whatever the outcomes after e_k are, and if every response is 1 the
\* relationship ids of all outcomes in order and no error
C15_BatchResponse ==
  (resp # None /\ resp.kind = "edits") =>
    LET e == resp.edits
        bad == { i \in 1..Len(e) : e[i].response # 1 }
    IN  IF bad = {}
          THEN /\ posted.err = ""
               /\ posted.ids = [i \in 1..Len(e) |-> e[i].relationship_id]
          ELSE LET k == CHOOSE i \in bad : \A j \in bad : i <= j
               IN  /\ posted.ids = [i \in 1..(k - 1) |-> e[i].relationship_id]
                   /\ posted.err = "relationship edit " \o ToString(k - 1)
                                     \o " with type " \o ToString(e[k].edit_type)
                                     \o " failed: " \o ToString(e[k].response)

C15_Witness ==
  /\ resp # None
  /\ resp.kind = "edits"
  /\ Len(resp.edits) = 2
  /\ resp.edits[1].response = 1 /\ resp.edits[1].relationship_id = 5
  /\ resp.edits[2].response = 2
  /\ posted.ids = <<5>>
  /\ posted.err = "relationship edit 1 with type 90 failed: 2"

\* C16: when ctx is cancelled while updateURL waits for the limiter before
\* one of its requests, updateURL returns an error and no edit has been
\* issued for the identifier
C16_CancelledWithoutEdits ==
  (pc = "return" /\ cancelled \in {"getWait", "renameWait", "editWait", "createWait"}) =>
    /\ err # ""
    /\ \A i \in 1..Len(sent) : sent[i].method # "POST"

\* C17 as stated: as long as the input can be read, the run of main ends
\* only when every line of it has been read, whatever failed for a line
C17_RunEndsOnlyAtEndOfInput ==
  (pc \in {"exit", "fatal"} /\ \A i \in 1..lineNo : lines[i] # ScanError) =>
    lineNo = Len(lines)

\* C17 as the code has it: updateURL is called for the lines in order and
\* the run goes on after it whatever it returns; the run ends when the
\* input is exhausted, with updateURL called for every line, or at the
\* first line that cannot be read or is no MBID
C17_RunEndsAtEndOfInputOrBadLine ==
  /\ \A i \in 1..Len(done) : done[i].mbid = lines[i]
  /\ pc = "exit" => lineNo = Len(lines) /\ Len(done) = Len(lines)
  /\ pc = "fatal" => readMBID(lines[lineNo]) # "" /\ Len(done) = lineNo - 1
  /\ pc \notin {"exit", "fatal"} => lineNo - Len(done) \in {0, 1}

C17_Witness ==
  /\ pc = "exit"
  /\ Len(lines) = 2
  /\ Len(done) = 2
  /\ done[1].failed
  /\ ~done[2].failed

\* the kinds of the requests in the order of updateURL's statements
KindRank(kind) ==
  CASE kind = "fetch" -> 1 [] kind = "rename" -> 2
    [] kind = "edit" -> 3 [] kind = "create" -> 4

\* C18: the requests of one identifier are issued in the order fetch, rename
\* edit, the one batch that edits every relationship of updatedRels, one
\* creation batch per new URL in list order, and the request in flight is
\* the last one issued
C18_SubmissionOrder ==
  /\ \A i, j \in 1..Len(sent) :
       i < j => \/ KindRank(Kind(sent[i])) < KindRank(Kind(sent[j]))
                \/ Kind(sent[i]) = "create" /\ Kind(sent[j]) = "create"
  /\ \A q \in { sent[i] : i \in 1..Len(sent) } :
       Kind(q) = "edit" =>
         \A i \in 1..Len(res.updatedRels) :
           q.vals[<<relPrefix(i - 1), "id">>] = ToString(res.updatedRels[i].id)
  /\ \A k \in 1..Len(Requests("create")) :
       \E key \in DOMAIN Requests("create")[k].vals :
         /\ key[2] \in {"entity.0.url", "entity.1.url"}
         /\ Requests("create")[k].vals[key] = res.newURLs[k].url
  /\ pc \in {"getSent", "renameSent", "editSent", "createSent"} =>
       Kind(sent[Len(sent)]) = CASE pc = "getSent" -> "fetch"
                                 [] pc = "renameSent" -> "rename"
                                 [] pc = "editSent" -> "edit"
                                 [] pc = "createSent" -> "create"

C18_Witness ==
  /\ pc = "createSent"
  /\ [i \in 1..Len(sent) |-> Kind(sent[i])] = <<"fetch", "edit", "create">>
  /\ Len(res.updatedRels) = 2

\* the kinds of the edits issued, in order
Posts ==
  LET p == SelectSeq(sent, LAMBDA q : q.method = "POST")
  IN  [i \in 1..Len(p) |-> Kind(p[i])]

\* the edits the result of doRewrite implies, in order
ImpliedPosts ==
  IF res.nil THEN << >>
  ELSE (IF res.rewritten # << >> /\ res.rewritten # info.url
          THEN <<"rename">> ELSE << >>)
       \o (IF Len(res.updatedRels) > 0 THEN <<"edit">> ELSE << >>)
       \o [k \in 1..Len(res.newURLs) |-> "create"]

\* C19: updateURL issues only the edits the result of doRewrite implies (a
\* rename edit, to the rewritten name, iff that name is not empty and
\* differs from the fetched URL, an edit batch iff updatedRels is not empty,
\* a creation batch per new URL) and has issued all of them when it returns
\* nil; when doRewrite returns no change it issues none and returns nil
C19_ExactlyImpliedEdits ==
  /\ Len(Posts) <= Len(ImpliedPosts)
  /\ Posts = SubSeq(ImpliedPosts, 1, Len(Posts))
  /\ \A i \in 1..Len(sent) :
       Kind(sent[i]) = "rename" => sent[i].vals[<<"edit-url.", "url">>] = res.rewritten
  /\ (pc = "return" /\ err = "") => Posts = ImpliedPosts
  /\ (pc = "return" /\ resp.kind = "page" /\ res.nil) => err = "" /\ Posts = << >>

C19_Witness ==
  /\ pc = "return"
  /\ err = ""
  /\ info.url = <<"https", "://", "tidal", ".", "com", "/", "album", "/", "1">>
  /\ Len(info.rels) = 1
  /\ res.nil
  /\ Len(sent) = 1

\* reconciling the relationships of the edit batch fails
EditFails ==
  /\ Len(res.updatedRels) > 0
  /\ editVals(NoVals, 0, res.updatedRels, info.rels).err # ""

\* reconciling the relationships of the k-th new URL fails
CreateFails(k) == createVals(NoVals, 0, res.newURLs[k]).err # ""

\* C20: if reconciling a relationship of an identifier fails, the batch that
\* would have held that relationship is never issued and updateURL returns
\* an error
C20_ReconcilerFailureReported ==
  ~res.nil =>
    /\ EditFails => Requests("edit") = << >>
    /\ \A k \in 1..Len(res.newURLs) :
         CreateFails(k) => Len(Requests("create")) < k
    /\ (pc = "return" /\ (EditFails \/ \E k \in 1..Len(res.newURLs) : CreateFails(k))) =>
         err # ""

C20_Witness ==
  /\ pc = "return"
  /\ ~res.nil
  /\ Len(res.newURLs) = 1
  /\ Len(res.newURLs[1].rels) = 1
  /\ CreateFails(1)
  /\ ~res.newURLs[1].rels[1].backward
  /\ res.newURLs[1].rels[1].targetType = "release"
  /\ err = "incorrect direction for relationship"
  /\ Posts = <<"edit">>

\* the outcomes of the last response that come before its first failure
SucceededBefore ==
  { i \in 1..Len(resp.edits) : \A j \in 1..i : resp.edits[j].response = 1 }

C22_ModeDiscriminator ==
  (pc = "returned" /\ err = "") =>
    IF original = None
      THEN /\ <<relPre, "action">> \in DOMAIN relVals
           /\ relVals[<<relPre, "action">>] = "add"
           /\ <<relPre, "id">> \notin DOMAIN relVals
      ELSE /\ {<<relPre, "action">>, <<relPre, "id">>} \subseteq DOMAIN relVals
           /\ relVals[<<relPre, "action">>] = "edit"
           /\ relVals[<<relPre, "id">>] = ToString(original.id)

C22_Witness ==
  /\ pc = "returned"
  /\ err = ""
  /\ original = None
  /\ relPre = relPrefix(1)
  /\ relVals[<<relPrefix(0), "action">>] = "edit"
  /\ relVals[<<relPrefix(1), "action">>] = "add"
  /\ <<relPrefix(1), "id">> \notin DOMAIN relVals

\* C23: whenever setRelEditVals succeeds, for a new relationship and for an
\* edit, it has set link_type to the desired link type id, also when that
\* is the link type of the original
C23_LinkTypeAlwaysEmitted ==
  (pc = "returned" /\ err = "") =>
    /\ <<relPre, "link_type">> \in DOMAIN relVals
    /\ relVals[<<relPre, "link_type">>] = ToString(desired.linkTypeID)

C23_Witness ==
  /\ pc = "returned"
  /\ err = ""
  /\ original # None
  /\ desired.linkTypeID = original.linkTypeID
  /\ desired.linkTypeID = 176
  /\ desired.beginDate # original.beginDate
  /\ relVals[<<relPre, "link_type">>] = "176"

\* C24: whenever setRelEditVals succeeds, it has set begin-date (end-date)
\* fields only if the desired begin (end) date is not empty and, with an
\* original, differs from the original's, and then all three of them
C24_DateFieldsTogether ==
  (pc = "returned" /\ err = "") =>
    /\ (EmittedFields \cap BeginDateFields # {}) =>
         /\ BeginDateFields \subseteq EmittedFields
         /\ ~empty(desired.beginDate)
         /\ original # None => desired.beginDate # original.beginDate
    /\ (EmittedFields \cap EndDateFields # {}) =>
         /\ EndDateFields \subseteq EmittedFields
         /\ ~empty(desired.endDate)
         /\ original # None => desired.endDate # original.endDate

C24_Witness ==
  /\ pc = "returned"
  /\ err = ""
  /\ original # None
  /\ desired.beginDate = original.beginDate /\ ~empty(desired.beginDate)
  /\ desired.endDate = date(2021, 10, 0)
  /\ original.endDate = someDate
  /\ EndDateFields \subseteq EmittedFields
  /\ EmittedFields \cap BeginDateFields = {}
  /\ relVals[<<relPre, "period.end_date.day">>] = ""

(***************************************************************************)
(* Further properties of the rewrite engine, checked in Spec.               *)
(***************************************************************************)
\* C25: a call of doRewrite leaves every relationship of the caller's list
\* as it was before the call
C25_InputUntouched ==
  [][(pc = "fetched" /\ pc' = "rewritten") => info'.rels = info.rels]_vars

C25_Witness ==
  /\ pc = "rewritten"
  /\ ~res.nil
  /\ Len(info.rels) = 2
  /\ Len(res.updatedRels) = 2
  /\ \A i \in 1..2 :
       /\ res.updatedRels[i].id = info.rels[i].id
       /\ res.updatedRels[i].ended /\ ~info.rels[i].ended
       /\ res.updatedRels[i].endDate # info.rels[i].endDate

\* the position in the list handed to doRewrite of the relationship with the
\* id of the j-th of updatedRels (0 if there is none)
OriginalOf(j) ==
  LET hits == { i \in 1..Len(info.rels) : info.rels[i].id = res.updatedRels[j].id }
  IN  IF hits = {} THEN 0 ELSE CHOOSE i \in hits : TRUE

\* C26: for every URL and every list of relationships with distinct ids
\* other than 0, each of the updatedRels of the result has the id of an
\* original relationship, and setRelEditVals succeeds for it with that
\* original, as an edit
C26_UpdatedRelsReconcile ==
  (pc = "rewritten" /\ ~res.nil) =>
    /\ \A j \in 1..Len(res.updatedRels) :
         /\ OriginalOf(j) # 0
         /\ LET r == setRelEditVals(NoVals, relPrefix(j - 1), res.updatedRels[j],
                                    oldRels(info.rels, res.updatedRels[j].id))
            IN  /\ r.err = ""
                /\ r.vals[<<relPrefix(j - 1), "action">>] = "edit"
    /\ editVals(NoVals, 0, res.updatedRels, info.rels).err = ""

C26_Witness ==
  /\ pc = "rewritten"
  /\ ~res.nil
  /\ info.url \in TidalStoreURLs
  /\ Len(info.rels) = 2
  /\ Len(res.updatedRels) = 1
  /\ OriginalOf(1) = 2
  /\ info.rels[2].ended
  /\ res.updatedRels[1].linkTypeID # info.rels[2].linkTypeID
  /\ DOMAIN editVals(NoVals, 0, res.updatedRels, info.rels).vals
       = { <<relPrefix(0), f>> : f \in {"action", "id", "link_type"} }

\* C27: each of the updatedRels of a result differs from the original with
\* its id, and only in linkTypeID, ended and endDate; the updatedRels are in
\* the order their originals have in the list
C27_OnlyLinkTypeAndEndChange ==
  (pc = "rewritten" /\ ~res.nil) =>
    /\ \A j \in 1..Len(res.updatedRels) :
         /\ OriginalOf(j) # 0
         /\ LET o == info.rels[OriginalOf(j)]
                u == res.updatedRels[j]
            IN  /\ u # o
                /\ [u EXCEPT !.linkTypeID = o.linkTypeID, !.ended = o.ended,
                             !.endDate = o.endDate] = o
    /\ \A j, k \in 1..Len(res.updatedRels) :
         j < k => OriginalOf(j) < OriginalOf(k)

C27_Witness ==
  /\ pc = "rewritten"
  /\ ~res.nil
  /\ info.url \in WithHost(GeocitiesHosts, Paths)
  /\ Len(res.updatedRels) = 2
  /\ OriginalOf(1) = 1 /\ OriginalOf(2) = 2
  /\ info.rels[1].targetType = "release"
  /\ res.updatedRels[1].beginDate = someDate
  /\ res.updatedRels[1].backward /\ ~res.updatedRels[2].backward

(***************************************************************************)
(* Further properties of updateURL, checked in SpecURL.                     *)
(***************************************************************************)
\* updateURL has returned, ctx not cancelled, and its last request, of the
\* given kind, failed: send returned an error, or the response held no edit
\* id (rename), was not JSON or held an outcome that is not a success
SubmissionFailed(kind) ==
  /\ pc = "return"
  /\ cancelled = ""
  /\ sent # << >>
  /\ Kind(sent[Len(sent)]) = kind
  /\ IF kind = "rename"
       THEN resp.kind \in {"error", "noEditID"}
       ELSE \/ resp.kind \in {"error", "badJSON"}
            \/ /\ resp.kind = "edits"
               /\ \E i \in 1..Len(resp.edits) : resp.edits[i].response # 1

\* C28: when the rename edit fails, updateURL returns an error and has
\* issued no relationship batch; when the batch of edits fails, it returns
\* an error and has issued no creation batch; when a creation batch fails,
\* it returns an error and no further batch follows; no step takes back a
\* request that was issued, and none follows the return
C28_FailedSubmissionStops ==
  [][/\ Len(sent') >= Len(sent)
     /\ SubSeq(sent', 1, Len(sent)) = sent
     /\ pc # "return"
     /\ SubmissionFailed("rename")' =>
          /\ err' # ""
          /\ Requests("edit")' = << >>
          /\ Requests("create")' = << >>
     /\ SubmissionFailed("edit")' =>
          /\ err' # ""
          /\ Requests("create")' = << >>
     /\ SubmissionFailed("create")' =>
          /\ err' # ""
          /\ Len(Requests("create"))' = newIdx']_vars

C28_Witness ==
  /\ SubmissionFailed("edit")
  /\ resp.kind = "edits"
  /\ Len(resp.edits) = 1
  /\ ~res.nil
  /\ Len(res.newURLs) = 1
  /\ WrongDirection(res.newURLs[1]) = {}
  /\ Requests("create") = << >>
  /\ err = "relationship edit 0 with type 90 failed: 2"

(***************************************************************************)
(* The errors of the relationship reconciler, checked in SpecRel.           *)
(***************************************************************************)
\* the desired relationship differs from its original, and only in what
\* setRelEditVals has no parameter for: a date that is now empty, backward,
\* the target, the link phrase
Unexpressible ==
  /\ original # None
  /\ desired # original
  /\ desired.linkTypeID = original.linkTypeID
  /\ desired.ended = original.ended
  /\ desired.beginDate = original.beginDate \/ empty(desired.beginDate)
  /\ desired.endDate = original.endDate \/ empty(desired.endDate)

\* C29: whenever the desired relationship differs from its original only in
\* a begin or end date cleared to empty, in backward, in the target or in
\* the link phrase, setRelEditVals returns the unsupported-update error and
\* has set no parameter
C29_UnsupportedUpdateError ==
  (pc = "returned" /\ Unexpressible) =>
    /\ err = "unsupported update for rel"
    /\ relVals = ValsBefore

C29_Witness ==
  /\ pc = "returned"
  /\ Unexpressible
  /\ desired.targetName # original.targetName
  /\ [desired EXCEPT !.targetName = original.targetName] = original
  /\ relVals = EarlierVals
  /\ err = "unsupported update for rel"

\* C30: whenever setRelEditVals returns an error, the map is as it was
\* handed in (a map that held no parameter with the prefix of the call)
C30_ErrorLeavesMapUnchanged ==
  (pc = "returned" /\ err # "") =>
    /\ err \in {"no changes for rel", "invalid rel", "unsupported update for rel"}
    /\ \A k \in DOMAIN ValsBefore : k[1] # relPre
    /\ relVals = ValsBefore

C30_Witness ==
  /\ pc = "returned"
  /\ err = "unsupported update for rel"
  /\ ~empty(original.beginDate) /\ empty(desired.beginDate)
  /\ ~empty(original.endDate) /\ empty(desired.endDate)
  /\ desired.backward # original.backward
  /\ relPre = relPrefix(1)
  /\ relVals = EarlierVals
  /\ relVals # NoVals

====
